---- MODULE Spec2Model ----
(***************************************************************************)
(* Model of the MSR2026 analysis pipeline:                                 *)
(*   src/src/build_rq2_features.py  (Labeler, Extractors, Assembler,       *)
(*                                   Transform Layer)                      *)
(*   src/src/run_rq1.py             (aggregate outcomes, Wilson interval)  *)
(* Relations are bags (functions row -> multiplicity), as SQL tables are.  *)
(* A nullable cell is Null (SQL NULL) or Some(v).  Timestamps are counted  *)
(* in whole hours, so DATEDIFF('hour', a, b) is b - a.                     *)
(***************************************************************************)
EXTENDS Integers, Sequences, FiniteSets, Bags, TLC

VARIABLES
    pc,                 \* position of build_rq2_features.main
    pull_request,       \* raw relations (parquet files of data_dir)
    pr_task_type,
    pr_commits,
    pr_commit_details,
    pr_reviews,
    pr_timeline,
    views,              \* names of the views created on the connection
    rq2_features,       \* the table CREATE TABLE rq2_features materialises
    df,                 \* the data frame after the derived transforms
    out_csv,            \* what to_csv wrote (Null: nothing written)
    env,                \* the file system the run starts in: config file, data_dir, parquet files
    out_dir,            \* whether the output directory exists
    error,              \* the exception that ended the run (Null: none)
    w_args,             \* the arguments of a call of wilson_ci (Null: no call)
    w_ret,              \* what the call returned (Null: not yet)
    overall,            \* run_rq1: the data frame overall
    by_agent,           \* run_rq1: the data frame by_agent
    rq1_out,            \* run_rq1: the files rq1_overall.csv and rq1_by_agent.csv (Null: not written)
    feat_csv,           \* run_rq2: the rows of the features file it is given
    mdf,                \* run_rq2: the data frame df
    resA,               \* run_rq2: the fit of Model A (Null: none)
    resB,               \* run_rq2: the fit of Model B (Null: none)
    rq2_out             \* run_rq2: the files written

vars == <<pc, pull_request, pr_task_type, pr_commits, pr_commit_details,
          pr_reviews, pr_timeline, views, rq2_features, df, out_csv, env, out_dir, error,
          w_args, w_ret, overall, by_agent, rq1_out, feat_csv, mdf, resA, resB, rq2_out>>

rq1Vars == <<overall, by_agent, rq1_out>>
rq2Vars == <<feat_csv, mdf, resA, resB, rq2_out>>

-----------------------------------------------------------------------------
(* SQL values *)

Null == <<>>
Some(v) == <<v>>
IsNull(x) == x = Null
Val(x) == x[1]
Coalesce(x, d) == IF IsNull(x) THEN d ELSE Val(x)

\* A raw timestamp cell: NULL, a text that parses as a date-time, or one that does not.
Ts(t) == Some([ok |-> TRUE, t |-> t])
BadTs == Some([ok |-> FALSE, t |-> 0])

\* TRY_CAST(x AS TIMESTAMP): NULL stays NULL, an unparsable text becomes NULL.
TryCastTs(x) == IF IsNull(x) THEN Null ELSE IF Val(x).ok THEN Some(Val(x).t) ELSE Null

\* Three-valued logic: "T", "F", "U" (unknown, SQL NULL).
Or3(a, b) == IF a = "T" \/ b = "T" THEN "T" ELSE IF a = "F" /\ b = "F" THEN "F" ELSE "U"

-----------------------------------------------------------------------------
(* Bags *)

RECURSIVE SumOver(_, _)
SumOver(S, B) ==
    IF S = {} THEN 0
    ELSE LET x == CHOOSE y \in S : TRUE IN B[x] + SumOver(S \ {x}, B)

\* SELECT f(row) FROM B (no DISTINCT): rows with the same image add up.
MapBag(F(_), B) ==
    LET img == {F(x) : x \in DOMAIN B}
    IN  [y \in img |-> SumOver({x \in DOMAIN B : F(x) = y}, B)]

\* SELECT * FROM B WHERE P(row)
FilterBag(P(_), B) == [x \in {y \in DOMAIN B : P(y)} |-> B[x]]

RECURSIVE BagOfSeq(_)
BagOfSeq(s) == IF s = <<>> THEN EmptyBag ELSE BagOfSeq(Tail(s)) (+) SetToBag({Head(s)})

NRows(B) == BagCardinality(B)

-----------------------------------------------------------------------------
(* Text: a string is a tuple of one-character strings *)

Lower(c) ==
    CASE c = "F" -> "f" [] c = "O" -> "o" [] c = "R" -> "r" [] c = "C" -> "c"
      [] c = "E" -> "e" [] c = "T" -> "t" [] c = "S" -> "s" [] c = "P" -> "p"
      [] OTHER -> c

LowerStr(s) == [i \in 1..Len(s) |-> Lower(s[i])]

\* s LIKE '%pat%'
Contains(s, pat) ==
    \E i \in 0..(Len(s) - Len(pat)) : \A j \in 1..Len(pat) : s[i + j] = pat[j]

\* x ILIKE '%pat%' on a nullable text: NULL gives unknown.
ILike(x, pat) ==
    IF IsNull(x) THEN "U"
    ELSE IF Contains(LowerStr(Val(x)), LowerStr(pat)) THEN "T" ELSE "F"

-----------------------------------------------------------------------------
(* Joins *)

\* L JOIN R ON On(l, r)
InnerJoin(L, R, On(_, _)) ==
    [p \in {q \in (DOMAIN L) \X (DOMAIN R) : On(q[1], q[2])} |-> L[p[1]] * R[p[2]]]

\* The rows of R a row with identifier id is LEFT JOINed to: each match, or one NULL row.
Matches(R, id) ==
    LET m == {r \in DOMAIN R : r.pr_id = id}
    IN  IF m = {} THEN {Null} ELSE {Some(r) : r \in m}

Mult(R, x) == IF IsNull(x) THEN 1 ELSE R[Val(x)]

\* L LEFT JOIN R ON R.pr_id = L.pr_id
LeftJoin(L, R) ==
    LET J == UNION {{<<l, x>> : x \in Matches(R, l.pr_id)} : l \in DOMAIN L}
    IN  [p \in J |-> L[p[1]] * Mult(R, p[2])]

-----------------------------------------------------------------------------
(* Outcome Labeler: view rq2_base *)

\* agentic: SELECT DISTINCT id, agent FROM pr_task_type WHERE agent IS NOT NULL
agentic ==
    {[pr_id |-> t.id, agent |-> t.agent] : t \in {u \in DOMAIN pr_task_type : ~IsNull(u.agent)}}

PrRow(p) ==
    [pr_id |-> p.id, repo_id |-> p.repo_id, author_user_id |-> p.user_id,
     created_ts |-> TryCastTs(p.created_at),
     closed_ts |-> TryCastTs(p.closed_at),
     merged_ts |-> TryCastTs(p.merged_at)]

\* pr: the projection of pull_request with the timestamps cast
pr == MapBag(PrRow, pull_request)

\* mutant: the closed timestamp is tested before the merged one
OutcomeClosedFirst(merged_ts, closed_ts) ==
    IF ~IsNull(closed_ts) THEN "closed_unmerged"
    ELSE IF ~IsNull(merged_ts) THEN "merged"
    ELSE "open"

Outcome(merged_ts, closed_ts) ==
    IF ~IsNull(merged_ts) THEN "merged"
    ELSE IF ~IsNull(closed_ts) /\ IsNull(merged_ts) THEN "closed_unmerged"
    ELSE "open"

YMerged(merged_ts) == IF ~IsNull(merged_ts) THEN 1 ELSE 0

LabeledRow(q) ==
    LET a == q[1]
        r == q[2]
    IN  [pr_id |-> a.pr_id, agent |-> a.agent, repo_id |-> r.repo_id,
         author_user_id |-> r.author_user_id, created_ts |-> r.created_ts,
         closed_ts |-> r.closed_ts, merged_ts |-> r.merged_ts,
         outcome |-> Outcome(r.merged_ts, r.closed_ts),
         y_merged |-> YMerged(r.merged_ts)]

JoinOnId(a, r) == r.pr_id = a.pr_id

\* labeled: agentic JOIN pr ON pr.pr_id = a.pr_id
labeled == MapBag(LabeledRow, InnerJoin(SetToBag(agentic), pr, JoinOnId))

\* mutant: the WHERE clause keeps every labeled row
ResolvedAll(l) == TRUE

Resolved(l) == l.outcome \in {"merged", "closed_unmerged"}

\* SELECT * FROM labeled WHERE outcome IN ('merged','closed_unmerged')
rq2_base == FilterBag(Resolved, labeled)

-----------------------------------------------------------------------------
(* Feature Extractors: views f_commits, f_changes, f_reviews, f_forcepush *)

Str_test == <<"t", "e", "s", "t">>
Str_spec == <<"s", "p", "e", "c">>
Str_tests_dir == <<"_", "_", "t", "e", "s", "t", "s", "_", "_">>
Str_force == <<"f", "o", "r", "c", "e">>
Str_empty == <<>>

Group(T, id) == {r \in DOMAIN T : r.pr_id = id}
Keys(T) == {r.pr_id : r \in DOMAIN T}

Max(S) == CHOOSE x \in S : \A y \in S : y <= x
Min(S) == CHOOSE x \in S : \A y \in S : x <= y

\* mutant: NULL counted as one more sha
CountDistinctShaWithNull(g) == Cardinality({c.sha : c \in g})

\* COUNT(DISTINCT sha): NULLs are not counted
CountDistinctSha(g) == Cardinality({Val(c.sha) : c \in {d \in g : ~IsNull(d.sha)}})

\* f_commits: SELECT pr_id, COUNT(DISTINCT sha) FROM pr_commits GROUP BY pr_id
f_commits ==
    SetToBag({[pr_id |-> k, n_commits |-> CountDistinctSha(Group(pr_commits, k))]
              : k \in Keys(pr_commits)})

\* SUM(COALESCE(col, 0)) over the rows g of bag T, each counted with its multiplicity
SumAdditions(T, g) == SumOver(g, [r \in g |-> T[r] * Coalesce(r.additions, 0)])
SumDeletions(T, g) == SumOver(g, [r \in g |-> T[r] * Coalesce(r.deletions, 0)])

\* COUNT(DISTINCT filename) FILTER (WHERE filename IS NOT NULL)
CountDistinctFilename(g) == Cardinality({Val(r.filename) : r \in {d \in g : ~IsNull(d.filename)}})

\* CASE WHEN filename ILIKE '%test%' OR ... '%spec%' OR ... '%__tests__%' THEN 1 ELSE 0 END
TestCase(filename) ==
    IF Or3(Or3(ILike(filename, Str_test), ILike(filename, Str_spec)),
           ILike(filename, Str_tests_dir)) = "T"
    THEN 1 ELSE 0

ChangesRow(T, k) ==
    LET g == Group(T, k)
    IN  [pr_id |-> k,
         add_lines |-> SumAdditions(T, g),
         del_lines |-> SumDeletions(T, g),
         delta_loc |-> SumAdditions(T, g) + SumDeletions(T, g),
         n_files |-> CountDistinctFilename(g),
         tests_added |-> Max({TestCase(r.filename) : r \in g})]

\* f_changes: aggregates of pr_commit_details GROUP BY pr_id
f_changes == SetToBag({ChangesRow(pr_commit_details, k) : k \in Keys(pr_commit_details)})

\* MIN(TRY_CAST(submitted_at AS TIMESTAMP)): NULL when no row of the group casts
FirstReviewTs(g) ==
    LET ts == {Val(TryCastTs(r.submitted_at)) : r \in {d \in g : ~IsNull(TryCastTs(d.submitted_at))}}
    IN  IF ts = {} THEN Null ELSE Some(Min(ts))

first_review ==
    SetToBag({[pr_id |-> k, first_review_ts |-> FirstReviewTs(Group(pr_reviews, k))]
              : k \in Keys(pr_reviews)})

HasReview(first_review_ts) == IF ~IsNull(first_review_ts) THEN 1 ELSE 0

\* DATEDIFF('hour', created_ts, first_review_ts), or NULL
HoursToFirstReview(first_review_ts, created_ts) ==
    IF ~IsNull(first_review_ts) /\ ~IsNull(created_ts)
    THEN Some(Val(first_review_ts) - Val(created_ts))
    ELSE Null

ReviewRow(q) ==
    LET b == q[1]
        ts == IF IsNull(q[2]) THEN Null ELSE Val(q[2]).first_review_ts
    IN  [pr_id |-> b.pr_id,
         has_review |-> HasReview(ts),
         hours_to_first_review |-> HoursToFirstReview(ts, b.created_ts)]

\* f_reviews: FROM rq2_base b LEFT JOIN first_review fr ON fr.pr_id = b.pr_id
f_reviews == MapBag(ReviewRow, LeftJoin(rq2_base, first_review))

\* mutant: only the message is matched
ForceCaseMessageOnly(event, message) ==
    IF ILike(Some(Coalesce(message, Str_empty)), Str_force) = "T" THEN 1 ELSE 0

\* mutant: only the event type is matched
ForceCaseEventOnly(event, message) == IF ILike(event, Str_force) = "T" THEN 1 ELSE 0

\* CASE WHEN event ILIKE '%force%' OR COALESCE(message,'') ILIKE '%force%' THEN 1 ELSE 0 END
ForceCase(event, message) ==
    IF Or3(ILike(event, Str_force), ILike(Some(Coalesce(message, Str_empty)), Str_force)) = "T"
    THEN 1 ELSE 0

\* f_forcepush: MAX(CASE ...) FROM pr_timeline GROUP BY pr_id
f_forcepush ==
    SetToBag({[pr_id |-> k,
               force_push |-> Max({ForceCase(r.event, r.message) : r \in Group(pr_timeline, k)})]
              : k \in Keys(pr_timeline)})

-----------------------------------------------------------------------------
(* Feature Assembler: table rq2_features *)

\* a column of a LEFT JOINed row: NULL when the row has no match
ColNCommits(c) == IF IsNull(c) THEN Null ELSE Some(Val(c).n_commits)
ColDeltaLoc(ch) == IF IsNull(ch) THEN Null ELSE Some(Val(ch).delta_loc)
ColNFiles(ch) == IF IsNull(ch) THEN Null ELSE Some(Val(ch).n_files)
ColTestsAdded(ch) == IF IsNull(ch) THEN Null ELSE Some(Val(ch).tests_added)
ColForcePush(fp) == IF IsNull(fp) THEN Null ELSE Some(Val(fp).force_push)
ColHasReview(rv) == IF IsNull(rv) THEN Null ELSE Some(Val(rv).has_review)
ColHours(rv) == IF IsNull(rv) THEN Null ELSE Val(rv).hours_to_first_review

\* mutant: the first branch tests < 1, so a single commit falls through to the ELSE
CommitBucketBelowOne(n_commits) ==
    IF Coalesce(n_commits, 0) < 1 THEN 1
    ELSE IF n_commits = Some(2) THEN 2
    ELSE IF n_commits = Some(3) THEN 3
    ELSE IF n_commits = Some(4) THEN 4
    ELSE 5

CommitBucket(n_commits) ==
    IF Coalesce(n_commits, 0) <= 1 THEN 1
    ELSE IF n_commits = Some(2) THEN 2
    ELSE IF n_commits = Some(3) THEN 3
    ELSE IF n_commits = Some(4) THEN 4
    ELSE 5

\* mutant: force_push is taken from the join without COALESCE
FeatureRowForcePushNull(j) ==
    LET b == j[1]
        c == j[2]
        ch == j[3]
        fp == j[4]
        rv == j[5]
    IN  [pr_id |-> b.pr_id, repo_id |-> b.repo_id, agent |-> b.agent, y_merged |-> b.y_merged,
         n_commits |-> Coalesce(ColNCommits(c), 0),
         commit_bucket |-> CommitBucket(ColNCommits(c)),
         delta_loc |-> Coalesce(ColDeltaLoc(ch), 0),
         n_files |-> Coalesce(ColNFiles(ch), 0),
         tests_added |-> Coalesce(ColTestsAdded(ch), 0),
         force_push |-> IF IsNull(ColForcePush(fp)) THEN -1 ELSE Val(ColForcePush(fp)),
         has_review |-> Coalesce(ColHasReview(rv), 0),
         hours_to_first_review |-> ColHours(rv)]

FeatureRow(j) ==
    LET b == j[1]
        c == j[2]
        ch == j[3]
        fp == j[4]
        rv == j[5]
    IN  [pr_id |-> b.pr_id, repo_id |-> b.repo_id, agent |-> b.agent, y_merged |-> b.y_merged,
         n_commits |-> Coalesce(ColNCommits(c), 0),
         commit_bucket |-> CommitBucket(ColNCommits(c)),
         delta_loc |-> Coalesce(ColDeltaLoc(ch), 0),
         n_files |-> Coalesce(ColNFiles(ch), 0),
         tests_added |-> Coalesce(ColTestsAdded(ch), 0),
         force_push |-> Coalesce(ColForcePush(fp), 0),
         has_review |-> Coalesce(ColHasReview(rv), 0),
         hours_to_first_review |-> ColHours(rv)]

\* rq2_base b LEFT JOIN f_commits c LEFT JOIN f_changes ch LEFT JOIN f_forcepush fp
\* LEFT JOIN f_reviews rv, each ON <block>.pr_id = b.pr_id
AssembleJoin(B, C, CH, FP, RV) ==
    LET J == UNION {{<<b, c, ch, fp, rv>> :
                        c \in Matches(C, b.pr_id), ch \in Matches(CH, b.pr_id),
                        fp \in Matches(FP, b.pr_id), rv \in Matches(RV, b.pr_id)}
                    : b \in DOMAIN B}
    IN  [j \in J |-> B[j[1]] * Mult(C, j[2]) * Mult(CH, j[3]) * Mult(FP, j[4]) * Mult(RV, j[5])]

Rq2FeaturesQuery ==
    MapBag(FeatureRow, AssembleJoin(rq2_base, f_commits, f_changes, f_forcepush, f_reviews))

-----------------------------------------------------------------------------
(* Transform Layer *)

\* log1p in fixed point: LogScale * ln(1 + x), truncated; exactly 0 at x = 0.
LogScale == 10000
Ln2Fix == 6931

RECURSIVE Log2Floor(_)
Log2Floor(n) == IF n < 2 THEN 0 ELSE 1 + Log2Floor(n \div 2)

\* ln(n) for an integer n >= 1: n = 2^k * m with 1 <= m < 2, ln m = 2 atanh((m-1)/(m+1))
LnFix(n) ==
    LET k == Log2Floor(n)
        p == 2 ^ k
        y == (LogScale * (n - p)) \div (n + p)
        y2 == (y * y) \div LogScale
        y3 == (y * y2) \div LogScale
        y5 == (y3 * y2) \div LogScale
        y7 == (y5 * y2) \div LogScale
    IN  k * Ln2Fix + 2 * (y + (y3 \div 3) + (y5 \div 5) + (y7 \div 7))

\* math.log1p(x) on an integer x: a ValueError (math domain error) when 1 + x <= 0
MathLog1pRaises(x) == x <= -1
MathLog1p(x) == LnFix(1 + x)

\* Series.clip(lower=0)
ClipLower0(x) == IF x < 0 THEN 0 ELSE x

\* mutant: missing hours are filled with 1 before the transform
Log1pHoursFill1(hours) == LnFix(1 + ClipLower0(Coalesce(hours, 1)))

\* np.where(hours.notna(), np.log1p(hours.clip(lower=0)), 0.0)
Log1pHours(hours) == IF ~IsNull(hours) THEN LnFix(1 + ClipLower0(Val(hours))) ELSE 0

DfRow(f) ==
    [pr_id |-> f.pr_id, repo_id |-> f.repo_id, agent |-> f.agent, y_merged |-> f.y_merged,
     n_commits |-> f.n_commits, commit_bucket |-> f.commit_bucket,
     delta_loc |-> f.delta_loc, n_files |-> f.n_files, tests_added |-> f.tests_added,
     force_push |-> f.force_push, has_review |-> f.has_review,
     hours_to_first_review |-> f.hours_to_first_review,
     log1p_commits |-> MathLog1p(f.n_commits),
     log1p_delta_loc |-> MathLog1p(f.delta_loc),
     log1p_files |-> MathLog1p(f.n_files),
     log1p_hours_to_first_review |-> Log1pHours(f.hours_to_first_review)]

TransformRaises(T) ==
    \E f \in DOMAIN T :
        MathLog1pRaises(f.n_commits) \/ MathLog1pRaises(f.delta_loc) \/ MathLog1pRaises(f.n_files)

-----------------------------------------------------------------------------
(* build_rq2_features.main *)

RequiredTables ==
    <<"pull_request", "pr_task_type", "pr_commits", "pr_commit_details",
      "pr_reviews", "pr_timeline", "repository", "user">>

FeatureViews == {"rq2_base", "f_commits", "f_changes", "f_reviews", "f_forcepush"}

\* out_path.parent.mkdir(parents=True, exist_ok=True)
Mkdir ==
    /\ pc = "start"
    /\ out_dir' = TRUE
    /\ pc' = "mkdir"
    /\ UNCHANGED <<pull_request, pr_task_type, pr_commits, pr_commit_details, pr_reviews,
                   pr_timeline, views, rq2_features, df, out_csv, env, error, w_args, w_ret, rq1Vars, rq2Vars>>

\* load_config: open the file, read cfg["data_dir"], check that the directory exists
LoadConfig ==
    /\ pc = "mkdir"
    /\ IF ~env.config_file
       THEN pc' = "raised" /\ error' = Some("FileNotFoundError: config")
       ELSE IF ~env.has_data_dir_key
       THEN pc' = "raised" /\ error' = Some("KeyError: data_dir")
       ELSE IF ~env.data_dir_exists
       THEN pc' = "raised" /\ error' = Some("FileNotFoundError: data_dir not found")
       ELSE pc' = "config" /\ error' = error
    /\ UNCHANGED <<pull_request, pr_task_type, pr_commits, pr_commit_details, pr_reviews,
                   pr_timeline, views, rq2_features, df, out_csv, env, out_dir, w_args, w_ret, rq1Vars, rq2Vars>>

\* the tables bind() reaches before the first missing parquet file
RECURSIVE BoundPrefix(_, _)
BoundPrefix(ts, files) ==
    IF ts = <<>> \/ Head(ts) \notin files THEN {}
    ELSE {Head(ts)} \cup BoundPrefix(Tail(ts), files)

\* connect_clean; bind_views: one view per required parquet, FileNotFoundError at the first missing one
BindViews ==
    /\ pc = "config"
    /\ views' = BoundPrefix(RequiredTables, env.files)
    /\ IF \E i \in 1..Len(RequiredTables) : RequiredTables[i] \notin env.files
       THEN pc' = "raised" /\ error' = Some("FileNotFoundError: Missing parquet")
       ELSE pc' = "bound" /\ error' = error
    /\ UNCHANGED <<pull_request, pr_task_type, pr_commits, pr_commit_details, pr_reviews,
                   pr_timeline, rq2_features, df, out_csv, env, out_dir, w_args, w_ret, rq1Vars, rq2Vars>>

\* CREATE OR REPLACE VIEW rq2_base, f_commits, f_changes, f_reviews, f_forcepush
CreateViews ==
    /\ pc = "bound"
    /\ views' = views \cup FeatureViews
    /\ pc' = "views"
    /\ UNCHANGED <<pull_request, pr_task_type, pr_commits, pr_commit_details, pr_reviews,
                   pr_timeline, rq2_features, df, out_csv, env, out_dir, error, w_args, w_ret, rq1Vars, rq2Vars>>

\* CREATE OR REPLACE TABLE rq2_features AS SELECT ... (the views are evaluated here)
Assemble ==
    /\ pc = "views"
    /\ rq2_features' = Rq2FeaturesQuery
    /\ pc' = "assembled"
    /\ UNCHANGED <<pull_request, pr_task_type, pr_commits, pr_commit_details, pr_reviews,
                   pr_timeline, views, df, out_csv, env, out_dir, error, w_args, w_ret, rq1Vars, rq2Vars>>

\* df = SELECT * FROM rq2_features, then the derived columns
Transform ==
    /\ pc = "assembled"
    /\ IF TransformRaises(rq2_features)
       THEN pc' = "raised" /\ error' = Some("ValueError: math domain error") /\ df' = df
       ELSE pc' = "transformed" /\ error' = error /\ df' = MapBag(DfRow, rq2_features)
    /\ UNCHANGED <<pull_request, pr_task_type, pr_commits, pr_commit_details, pr_reviews,
                   pr_timeline, views, rq2_features, out_csv, env, out_dir, w_args, w_ret, rq1Vars, rq2Vars>>

\* df.to_csv(out_path, index=False)
WriteCsv ==
    /\ pc = "transformed"
    /\ out_csv' = Some(df)
    /\ pc' = "done"
    /\ UNCHANGED <<pull_request, pr_task_type, pr_commits, pr_commit_details, pr_reviews,
                   pr_timeline, views, rq2_features, df, env, out_dir, error, w_args, w_ret, rq1Vars, rq2Vars>>

Next == Mkdir \/ LoadConfig \/ BindViews \/ CreateViews \/ Assemble \/ Transform \/ WriteCsv

-----------------------------------------------------------------------------
(* Inputs *)

\* all bags of n rows drawn from the rows U
BagsOfSize(U, n) == {BagOfSeq(s) : s \in [1..n -> U]}

ValidEnv ==
    [config_file |-> TRUE, has_data_dir_key |-> TRUE, data_dir_exists |-> TRUE,
     files |-> {RequiredTables[i] : i \in 1..Len(RequiredTables)}]

\* the state main() starts in, the raw relations given
Started ==
    /\ pc = "start"
    /\ views = {}
    /\ rq2_features = EmptyBag
    /\ df = EmptyBag
    /\ out_csv = Null
    /\ out_dir = FALSE
    /\ error = Null
    /\ w_args = Null
    /\ w_ret = Null
    /\ overall = EmptyBag
    /\ by_agent = EmptyBag
    /\ rq1_out = Null
    /\ feat_csv = EmptyBag
    /\ mdf = EmptyBag
    /\ resA = Null
    /\ resB = Null
    /\ rq2_out = {}

PrIds == {1, 2}
MaxRows == 3

PullRequestRows ==
    {[id |-> i, agent |-> Some("A"), repo_id |-> 100 + i, user_id |-> 200 + i,
      created_at |-> c, closed_at |-> d, merged_at |-> m]
     : i \in PrIds, c \in {Null, Ts(5)}, d \in {Null, Ts(7)}, m \in {Null, Ts(7)}}

TaskTypeRows == {[id |-> i, agent |-> a] : i \in PrIds, a \in {Null, Some("A"), Some("B")}}

ReviewRows == {[pr_id |-> i, submitted_at |-> t] : i \in PrIds, t \in {Null, Ts(3), Ts(9)}}

Str_a_py == <<"a", ".", "p", "y">>
Str_Test_py == <<"T", "e", "s", "t", ".", "p", "y">>
Str_Force == <<"F", "o", "r", "c", "e", "d">>

\* pull request 1 has rows in every extractor block, pull request 2 in none
Init ==
    /\ Started
    /\ env = ValidEnv
    /\ \E n1 \in 0..MaxRows : \E n2 \in 0..(MaxRows - n1) : \E n3 \in 0..(MaxRows - n1 - n2) :
          /\ pull_request \in BagsOfSize(PullRequestRows, n1)
          /\ pr_task_type \in BagsOfSize(TaskTypeRows, n2)
          /\ pr_reviews \in BagsOfSize(ReviewRows, n3)
    /\ pr_commits = SetToBag({[pr_id |-> 1, sha |-> Some("s1")], [pr_id |-> 1, sha |-> Some("s2")]})
    /\ pr_commit_details =
          SetToBag({[pr_id |-> 1, filename |-> Some(Str_Test_py), additions |-> Some(3), deletions |-> Null]})
    /\ pr_timeline = SetToBag({[pr_id |-> 1, event |-> Null, message |-> Some(Str_Force)]})

Spec == Init /\ [][Next]_vars

-----------------------------------------------------------------------------
(* Inputs for the commit block: two resolved agentic pull requests, pr_commits varied *)

MaxShas == 7

PrRowOf(i, created, closed, merged) ==
    [id |-> i, agent |-> Some("A"), repo_id |-> 100 + i, user_id |-> 200 + i,
     created_at |-> created, closed_at |-> closed, merged_at |-> merged]

\* n rows with distinct shas 1..n, d further copies of the row with sha 1, z rows with a NULL sha
CommitRows(i, n, d, z) ==
    SetToBag({[pr_id |-> i, sha |-> Some(k)] : k \in 1..n})
    (+) [r \in (IF n > 0 /\ d > 0 THEN {[pr_id |-> i, sha |-> Some(1)]} ELSE {}) |-> d]
    (+) [r \in (IF z > 0 THEN {[pr_id |-> i, sha |-> Null]} ELSE {}) |-> z]

InitCommits ==
    /\ Started
    /\ env = ValidEnv
    /\ pull_request = SetToBag({PrRowOf(1, Ts(5), Null, Ts(7)), PrRowOf(2, Ts(5), Ts(7), Null)})
    /\ pr_task_type = SetToBag({[id |-> 1, agent |-> Some("A")], [id |-> 2, agent |-> Some("B")]})
    /\ \E n1 \in 0..MaxShas, d1 \in 0..1, z1 \in 0..1, n2 \in 0..2 :
          pr_commits = CommitRows(1, n1, d1, z1) (+) CommitRows(2, n2, 0, 0)
    /\ pr_commit_details = EmptyBag
    /\ pr_reviews = EmptyBag
    /\ pr_timeline = EmptyBag

SpecCommits == InitCommits /\ [][Next]_vars

-----------------------------------------------------------------------------
(* Inputs for the end-to-end scenario of three pull requests *)

Str_force_pushed == <<"f", "o", "r", "c", "e", " ", "p", "u", "s", "h", "e", "d">>
Str_commented == <<"c", "o", "m", "m", "e", "n", "t", "e", "d">>
Str_head_ref_force_pushed ==
    <<"h", "e", "a", "d", "_", "r", "e", "f", "_", "f", "o", "r", "c", "e", "_", "p", "u", "s", "h", "e", "d">>

\* PR1: agent A, merged, 2 distinct commits, no review, no force-push event.
\* PR2: agent B, closed and not merged, 6 distinct commits, one review, one timeline
\*      event with the message 'force pushed'.
\* PR3: no agent (a NULL attribution or none at all).
\* What the scenario leaves open is drawn from small sets.
InitScenario ==
    /\ Started
    /\ env = ValidEnv
    /\ \E c1 \in {Null, Ts(5)}, d1 \in {Null, Ts(7)}, c2 \in {Null, Ts(5)},
          d3 \in {Null, Ts(7)}, m3 \in {Null, Ts(7)} :
          pull_request = SetToBag({PrRowOf(1, c1, d1, Ts(7)), PrRowOf(2, c2, Ts(7), Null),
                                   PrRowOf(3, Ts(5), d3, m3)})
    /\ \E t3 \in {EmptyBag, SetToBag({[id |-> 3, agent |-> Null]})} :
          pr_task_type =
             SetToBag({[id |-> 1, agent |-> Some("A")], [id |-> 2, agent |-> Some("B")]}) (+) t3
    /\ \E dup \in 0..1 : pr_commits = CommitRows(1, 2, dup, 0) (+) CommitRows(2, 6, 0, 0)
    /\ pr_commit_details = EmptyBag
    /\ \E t \in {Ts(3), Ts(9)} : pr_reviews = SetToBag({[pr_id |-> 2, submitted_at |-> t]})
    /\ \E e1 \in {EmptyBag, SetToBag({[pr_id |-> 1, event |-> Some(Str_commented), message |-> Null]})},
          e2 \in {Null, Some(Str_commented), Some(Str_head_ref_force_pushed)} :
          pr_timeline =
             e1 (+) SetToBag({[pr_id |-> 2, event |-> e2, message |-> Some(Str_force_pushed)]})

SpecScenario == InitScenario /\ [][Next]_vars

-----------------------------------------------------------------------------
(* Natural numbers of any size: little-endian sequences of limbs below Base, *)
(* no leading zero limb (zero is the empty sequence)                         *)

Base == 2 ^ 15

RECURSIVE BNorm(_)
BNorm(a) ==
    IF a = <<>> THEN <<>>
    ELSE IF a[Len(a)] = 0 THEN BNorm(SubSeq(a, 1, Len(a) - 1)) ELSE a

RECURSIVE BFromInt(_)
BFromInt(n) == IF n = 0 THEN <<>> ELSE <<n % Base>> \o BFromInt(n \div Base)

RestOf(a) == IF a = <<>> THEN <<>> ELSE Tail(a)
FirstOf(a) == IF a = <<>> THEN 0 ELSE Head(a)

RECURSIVE BAddC(_, _, _)
BAddC(a, b, c) ==
    IF a = <<>> /\ b = <<>> THEN (IF c = 0 THEN <<>> ELSE <<c>>)
    ELSE LET x == FirstOf(a) + FirstOf(b) + c
         IN  <<x % Base>> \o BAddC(RestOf(a), RestOf(b), x \div Base)

BAdd(a, b) == BAddC(a, b, 0)

RECURSIVE BSubB(_, _, _)
BSubB(a, b, br) ==
    IF a = <<>> THEN <<>>
    ELSE LET x == Head(a) - FirstOf(b) - br
         IN  <<x % Base>> \o BSubB(Tail(a), RestOf(b), IF x < 0 THEN 1 ELSE 0)

\* a - b for a >= b
BSub(a, b) == BNorm(BSubB(a, b, 0))

RECURSIVE BCmpAt(_, _, _)
BCmpAt(a, b, i) ==
    IF i = 0 THEN 0
    ELSE IF a[i] < b[i] THEN -1
    ELSE IF a[i] > b[i] THEN 1
    ELSE BCmpAt(a, b, i - 1)

\* -1, 0 or 1 as a < b, a = b or a > b
BCmp(a, b) ==
    IF Len(a) < Len(b) THEN -1
    ELSE IF Len(a) > Len(b) THEN 1
    ELSE BCmpAt(a, b, Len(a))

RECURSIVE BMulSmallC(_, _, _)
BMulSmallC(a, m, c) ==
    IF a = <<>> THEN (IF c = 0 THEN <<>> ELSE <<c>>)
    ELSE LET x == Head(a) * m + c
         IN  <<x % Base>> \o BMulSmallC(Tail(a), m, x \div Base)

\* a * m for 0 <= m < Base
BMulSmall(a, m) == BNorm(BMulSmallC(a, m, 0))

ShiftLimbs(a, n) == IF a = <<>> THEN <<>> ELSE [i \in 1..n |-> 0] \o a

RECURSIVE BMul(_, _)
BMul(a, b) ==
    IF a = <<>> \/ b = <<>> THEN <<>>
    ELSE BAdd(BMulSmall(a, Head(b)), ShiftLimbs(BMul(a, Tail(b)), 1))

RECURSIVE BDivSmallAt(_, _, _, _)
BDivSmallAt(a, d, i, rem) ==
    IF i = 0 THEN <<>>
    ELSE LET x == rem * Base + a[i]
         IN  BDivSmallAt(a, d, i - 1, x % d) \o <<x \div d>>

\* a * 2^n and floor(a / 2^n)
BShl(a, n) == ShiftLimbs(BMulSmall(a, 2 ^ (n % 15)), n \div 15)
BShr(a, n) ==
    LET hi == SubSeq(a, 1 + (n \div 15), Len(a))
    IN  BNorm(BDivSmallAt(hi, 2 ^ (n % 15), Len(hi), 0))

BBitLen(a) == IF a = <<>> THEN 0 ELSE 15 * (Len(a) - 1) + Log2Floor(a[Len(a)]) + 1

\* bit i of a, bit 1 the lowest
BBit(a, i) == (a[((i - 1) \div 15) + 1] \div (2 ^ ((i - 1) % 15))) % 2

BIsOdd(a) == a # <<>> /\ Head(a) % 2 = 1

\* one step of long division: bit i of a enters the remainder
BDivBit(a, b, i, qr) ==
    LET r2 == BAddC(qr[2], qr[2], BBit(a, i))
        ge == BCmp(r2, b) >= 0
    IN  <<BAddC(qr[1], qr[1], IF ge THEN 1 ELSE 0), IF ge THEN BSub(r2, b) ELSE r2>>

\* the steps for bits hi down to lo of a, the upper half of the range first
RECURSIVE BDivBits(_, _, _, _, _)
BDivBits(a, b, hi, lo, qr) ==
    IF hi < lo THEN qr
    ELSE IF hi = lo THEN BDivBit(a, b, hi, qr)
    ELSE LET mid == (hi + lo) \div 2
             upper == BDivBits(a, b, hi, mid + 1, qr)
         IN  IF Len(upper[1]) + Len(upper[2]) >= 0 THEN BDivBits(a, b, mid, lo, upper) ELSE upper

\* <<quotient, remainder>> of a by b # 0
BDivMod(a, b) == BDivBits(a, b, BBitLen(a), 1, <<<<>>, <<>>>>)

\* one step of the square root: bit i (bit 0 the lowest) of the root is set if it fits
BSqrtBit(a, i, r) ==
    LET c == BAdd(r, BShl(<<1>>, i)) IN IF BCmp(BMul(c, c), a) <= 0 THEN c ELSE r

RECURSIVE BSqrtBits(_, _, _, _)
BSqrtBits(a, hi, lo, r) ==
    IF hi < lo THEN r
    ELSE IF hi = lo THEN BSqrtBit(a, hi, r)
    ELSE LET mid == (hi + lo) \div 2
             upper == BSqrtBits(a, hi, mid + 1, r)
         IN  IF Len(upper) >= 0 THEN BSqrtBits(a, mid, lo, upper) ELSE upper

\* floor(sqrt(a))
BIsqrt(a) == BSqrtBits(a, (BBitLen(a) + 1) \div 2, 0, <<>>)

-----------------------------------------------------------------------------
(* IEEE 754 binary64 (Python float, numpy float64), round to nearest, ties  *)
(* to even.  A finite value is (-1)^neg * m * 2^e with m odd or zero; the    *)
(* exponent range is not modelled (no overflow or subnormal in these runs).  *)

MantissaBits == 53

NaN == [nan |-> TRUE, neg |-> FALSE, m |-> <<>>, e |-> 0]
FZero == [nan |-> FALSE, neg |-> FALSE, m |-> <<>>, e |-> 0]

RECURSIVE TrailingZerosInt(_)
TrailingZerosInt(n) == IF n % 2 = 1 THEN 0 ELSE 1 + TrailingZerosInt(n \div 2)

\* the number of low zero bits of m # 0
RECURSIVE TrailingZeros(_)
TrailingZeros(m) ==
    IF Head(m) = 0 THEN 15 + TrailingZeros(Tail(m)) ELSE TrailingZerosInt(Head(m))

\* the same value with an odd mantissa
FNorm(neg, m, e) ==
    IF m = <<>> THEN FZero
    ELSE LET t == TrailingZeros(m)
         IN  [nan |-> FALSE, neg |-> neg, m |-> BShr(m, t), e |-> e + t]

\* the binary64 nearest to (-1)^neg * (m + s) * 2^e, 0 < s < 1 when sticky else s = 0
\* (with sticky set, m has more than MantissaBits bits)
FRound(neg, m, e, sticky) ==
    LET len == BBitLen(m)
    IN  IF len <= MantissaBits THEN FNorm(neg, m, e)
        ELSE LET sh == len - MantissaBits
                 q == BShr(m, sh)
                 rem == BSub(m, BShl(q, sh))
                 c == BCmp(rem, BShl(<<1>>, sh - 1))
                 up == c = 1 \/ (c = 0 /\ (sticky \/ BIsOdd(q)))
             IN  FNorm(neg, IF up THEN BAdd(q, <<1>>) ELSE q, e + sh)

\* float(n) for an integer n of at most MantissaBits bits
FInt(n) == IF n < 0 THEN FNorm(TRUE, BFromInt(-n), 0) ELSE FNorm(FALSE, BFromInt(n), 0)

MinOf(x, y) == IF x <= y THEN x ELSE y

\* a + b, exactly
FExactAdd(a, b) ==
    LET e == MinOf(a.e, b.e)
        A == BShl(a.m, a.e - e)
        B == BShl(b.m, b.e - e)
    IN  IF a.neg = b.neg THEN [neg |-> a.neg, m |-> BAdd(A, B), e |-> e]
        ELSE IF BCmp(A, B) >= 0 THEN [neg |-> a.neg, m |-> BSub(A, B), e |-> e]
        ELSE [neg |-> b.neg, m |-> BSub(B, A), e |-> e]

FNeg(a) == IF a.nan \/ a.m = <<>> THEN a ELSE [a EXCEPT !.neg = ~a.neg]

FAdd(a, b) ==
    IF a.nan \/ b.nan THEN NaN
    ELSE LET x == FExactAdd(a, b) IN FRound(x.neg, x.m, x.e, FALSE)

FSub(a, b) == FAdd(a, FNeg(b))

FMul(a, b) ==
    IF a.nan \/ b.nan THEN NaN
    ELSE FRound(a.neg # b.neg, BMul(a.m, b.m), a.e + b.e, FALSE)

\* a / b for b # 0: the quotient to MantissaBits + 2 bits or more, the remainder as sticky bit
FDiv(a, b) ==
    IF a.nan \/ b.nan THEN NaN
    ELSE IF a.m = <<>> THEN FZero
    ELSE LET s == MantissaBits + 2 + BBitLen(b.m) - BBitLen(a.m)
             qr == BDivMod(BShl(a.m, s), b.m)
         IN  FRound(a.neg # b.neg, qr[1], a.e - b.e - s, qr[2] # <<>>)

\* sqrt(a): NaN for a < 0
FSqrt(a) ==
    IF a.nan \/ (a.neg /\ a.m # <<>>) THEN NaN
    ELSE IF a.m = <<>> THEN FZero
    ELSE LET s0 == 2 * MantissaBits + 4 - BBitLen(a.m)
             s == s0 + ((a.e - s0) % 2)
             M == BShl(a.m, s)
             r == BIsqrt(M)
         IN  FRound(FALSE, r, (a.e - s) \div 2, BMul(r, r) # M)

\* a <= b, a < b on values that are not NaN
FLe(a, b) == LET x == FExactAdd(b, FNeg(a)) IN x.m = <<>> \/ ~x.neg
FLt(a, b) == LET x == FExactAdd(b, FNeg(a)) IN x.m # <<>> /\ ~x.neg

-----------------------------------------------------------------------------
(* run_rq1.py: the Interval Estimator *)

\* the literals 1.96 and 2.576 (a decimal literal is the binary64 nearest to it)
Z196 == FDiv(FInt(196), FInt(100))
Z2576 == FDiv(FInt(2576), FInt(1000))

\* what a call does: the exception it raises (Null: none), the triple it returns, and
\* whether it evaluated a division by n
Returned(p, low, high, divided) ==
    [exc |-> Null, p |-> p, low |-> low, high |-> high, divided |-> divided]
Raised(e) == [exc |-> Some(e), p |-> NaN, low |-> NaN, high |-> NaN, divided |-> TRUE]

\* the statements after the n == 0 test; int / int by zero raises ZeroDivisionError
WilsonFormula(k, n, z) ==
    IF n = 0 THEN Raised("ZeroDivisionError")
    ELSE LET p == FDiv(FInt(k), FInt(n))
             zz == FMul(z, z)
             denom == FAdd(FInt(1), FDiv(zz, FInt(n)))
             center == FDiv(FAdd(p, FDiv(zz, FInt(2 * n))), denom)
             half == FDiv(FMul(z, FSqrt(FDiv(FAdd(FMul(p, FSub(FInt(1), p)),
                                                  FDiv(zz, FInt(4 * n))),
                                             FInt(n)))),
                          denom)
         IN  Returned(p, FSub(center, half), FAdd(center, half), TRUE)

\* mutant: the n == 0 test is missing
WilsonCiNoGuard(k, n, z) == WilsonFormula(k, n, z)

\* wilson_ci(k, n, z)
WilsonCi(k, n, z) == IF n = 0 THEN Returned(NaN, NaN, NaN, FALSE) ELSE WilsonFormula(k, n, z)

\* a call wilson_ci(k, n, z) returns
CallWilson ==
    /\ w_args # Null
    /\ w_ret = Null
    /\ w_ret' = Some(WilsonCi(Val(w_args).k, Val(w_args).n, Val(w_args).z))
    /\ UNCHANGED <<pc, pull_request, pr_task_type, pr_commits, pr_commit_details, pr_reviews,
                   pr_timeline, views, rq2_features, df, out_csv, env, out_dir, error, w_args, rq1Vars, rq2Vars>>

NextWilson == CallWilson

\* no run of the feature build
BuildOff ==
    /\ pc = "off"
    /\ pull_request = EmptyBag /\ pr_task_type = EmptyBag /\ pr_commits = EmptyBag
    /\ pr_commit_details = EmptyBag /\ pr_reviews = EmptyBag /\ pr_timeline = EmptyBag
    /\ views = {} /\ rq2_features = EmptyBag /\ df = EmptyBag /\ out_csv = Null
    /\ env = ValidEnv /\ out_dir = FALSE /\ error = Null
    /\ overall = EmptyBag /\ by_agent = EmptyBag /\ rq1_out = Null
    /\ feat_csv = EmptyBag /\ mdf = EmptyBag /\ resA = Null /\ resB = Null /\ rq2_out = {}

MaxN == 19

\* every call with 0 <= k <= n (z the default), and calls with n = 0 for any k and z
InitWilson ==
    /\ BuildOff
    /\ w_ret = Null
    /\ \/ \E n \in 1..MaxN : \E k \in 0..n : w_args = Some([k |-> k, n |-> n, z |-> Z196])
       \/ \E k \in 0..MaxN : \E z \in {Z196, Z2576, FZero, NaN} :
             w_args = Some([k |-> k, n |-> 0, z |-> z])

SpecWilson == InitWilson /\ [][NextWilson]_vars

-----------------------------------------------------------------------------
(* run_rq1.py: labeled pull requests, aggregates, intervals *)

\* CAST(x AS TIMESTAMP): NULL stays NULL, an unparsable text raises
CastRaises(x) == ~IsNull(x) /\ ~Val(x).ok
CastTs(x) == IF IsNull(x) THEN Null ELSE Some(Val(x).t)

Ind(b) == IF b THEN 1 ELSE 0

\* one row of rq1_labeled; the CASE expressions read the columns of pull_request
Rq1LabeledRow(p) ==
    [pr_id |-> p.id, agent |-> p.agent, repo_id |-> p.repo_id,
     created_at |-> CastTs(p.created_at),
     closed_at |-> CastTs(p.closed_at),
     merged_at |-> CastTs(p.merged_at),
     outcome |-> (IF ~IsNull(p.merged_at) THEN "merged"
                  ELSE IF ~IsNull(p.closed_at) /\ IsNull(p.merged_at) THEN "closed_unmerged"
                  ELSE "open"),
     merged |-> Ind(~IsNull(p.merged_at)),
     closed_unmerged |-> Ind(~IsNull(p.closed_at) /\ IsNull(p.merged_at)),
     open |-> Ind(IsNull(p.closed_at) /\ IsNull(p.merged_at))]

rq1_labeled == MapBag(Rq1LabeledRow, pull_request)

\* reading rq1_labeled raises when a timestamp text cannot be cast
Rq1LabeledRaises ==
    \E p \in DOMAIN pull_request :
        CastRaises(p.created_at) \/ CastRaises(p.closed_at) \/ CastRaises(p.merged_at)

\* the number of rows of B with P
CountWhere(P(_), B) == SumOver({x \in DOMAIN B : P(x)}, B)

\* SUM and AVG of a 0/1 column: NULL over no rows
SqlSum(P(_), B) == IF NRows(B) = 0 THEN Null ELSE Some(CountWhere(P, B))
SqlAvg(P(_), B) ==
    IF NRows(B) = 0 THEN Null ELSE Some(FDiv(FInt(CountWhere(P, B)), FInt(NRows(B))))

IsMerged(l) == l.merged = 1
IsClosedUnmerged(l) == l.closed_unmerged = 1
IsOpen(l) == l.open = 1

\* the aggregate columns of RQ1_OVERALL_SQL and RQ1_BY_AGENT_SQL over the rows B
Aggregates(B) ==
    [n_total |-> NRows(B),
     n_merged |-> SqlSum(IsMerged, B),
     n_closed_unmerged |-> SqlSum(IsClosedUnmerged, B),
     n_open |-> SqlSum(IsOpen, B),
     share_merged |-> SqlAvg(IsMerged, B),
     share_closed_unmerged |-> SqlAvg(IsClosedUnmerged, B),
     share_open |-> SqlAvg(IsOpen, B)]

\* RQ1_OVERALL_SQL: no GROUP BY, so one row whatever rq1_labeled holds
Rq1Overall == SetToBag({Aggregates(rq1_labeled)})

WithAgent(a, g) == [c \in {"agent"} \cup DOMAIN g |-> IF c = "agent" THEN a ELSE g[c]]

\* RQ1_BY_AGENT_SQL: one row per agent value, NULL a group of its own
Rq1ByAgent ==
    LET AgentGroup(a) == FilterBag(LAMBDA l : l.agent = a, rq1_labeled)
    IN  SetToBag({WithAgent(a, Aggregates(AgentGroup(a))) : a \in {l.agent : l \in DOMAIN rq1_labeled}})

\* int(r[col]) raises on a missing value (NULL arrives in the data frame as NaN)
IntRaises(cell) == IsNull(cell)

WithCi(r, lo, hi) ==
    [c \in {"merged_ci_low", "merged_ci_high"} \cup DOMAIN r |->
        IF c = "merged_ci_low" THEN lo ELSE IF c = "merged_ci_high" THEN hi ELSE r[c]]

\* the row with the two interval columns; k = int(r[k_col]), n = int(r[n_col])
CiRow(r) ==
    LET w == WilsonCi(Val(r.n_merged), r.n_total, Z196) IN WithCi(r, w.low, w.high)

\* add_wilson_ci(df, "n_merged", "n_total", "merged")
AddWilsonCiRaises(d) == \E r \in DOMAIN d : IntRaises(r.n_merged)
AddWilsonCi(d) == MapBag(CiRow, d)

Candidates ==
    {"pull_request", "repository", "user", "pr_task_type", "pr_commits", "pr_commit_details",
     "pr_reviews", "pr_timeline", "first_revert", "comment_revert", "tl_revert"}

buildVars == <<pr_task_type, pr_commits, pr_commit_details, pr_reviews, pr_timeline,
               rq2_features, df, out_csv, w_args, w_ret>>

\* load_config: the file, the data_dir key, the directory
Rq1LoadConfig ==
    /\ pc = "rq1_start"
    /\ IF ~env.config_file
       THEN pc' = "raised" /\ error' = Some("FileNotFoundError: Config not found")
       ELSE IF ~env.has_data_dir_key
       THEN pc' = "raised" /\ error' = Some("KeyError: data_dir")
       ELSE IF ~env.data_dir_exists
       THEN pc' = "raised" /\ error' = Some("FileNotFoundError: data_dir not found")
       ELSE pc' = "rq1_config" /\ error' = error
    /\ UNCHANGED <<pull_request, views, env, out_dir, buildVars, rq1Vars, rq2Vars>>

\* out_dir.mkdir(parents=True, exist_ok=True)
Rq1Mkdir ==
    /\ pc = "rq1_config"
    /\ out_dir' = TRUE
    /\ pc' = "rq1_mkdir"
    /\ UNCHANGED <<pull_request, views, env, error, buildVars, rq1Vars, rq2Vars>>

\* create_views_from_parquet, then CREATE OR REPLACE VIEW rq1_labeled
Rq1CreateViews ==
    /\ pc = "rq1_mkdir"
    /\ IF "pull_request" \notin env.files
       THEN pc' = "raised" /\ error' = Some("FileNotFoundError: Missing required parquet")
                           /\ views' = views
       ELSE pc' = "rq1_views" /\ error' = error
                              /\ views' = (Candidates \cap env.files) \cup {"rq1_labeled"}
    /\ UNCHANGED <<pull_request, env, out_dir, buildVars, rq1Vars, rq2Vars>>

\* labeled, overall, by_agent (decision, which only feeds a file of its own, is left out)
Rq1Queries ==
    /\ pc = "rq1_views"
    /\ IF Rq1LabeledRaises
       THEN pc' = "raised" /\ error' = Some("ConversionException")
                           /\ UNCHANGED <<overall, by_agent, rq2Vars>>
       ELSE pc' = "rq1_queried" /\ error' = error
                                /\ overall' = Rq1Overall /\ by_agent' = Rq1ByAgent
    /\ UNCHANGED <<pull_request, views, env, out_dir, buildVars, rq1_out, rq2Vars>>

\* overall = add_wilson_ci(overall, k_col="n_merged", n_col="n_total", prefix="merged")
Rq1AddWilsonOverall ==
    /\ pc = "rq1_queried"
    /\ IF AddWilsonCiRaises(overall)
       THEN pc' = "raised" /\ error' = Some("ValueError: cannot convert float NaN to integer")
                           /\ overall' = overall
       ELSE pc' = "rq1_ci_overall" /\ error' = error /\ overall' = AddWilsonCi(overall)
    /\ UNCHANGED <<pull_request, views, env, out_dir, buildVars, by_agent, rq1_out, rq2Vars>>

\* by_agent = add_wilson_ci(by_agent, k_col="n_merged", n_col="n_total", prefix="merged")
Rq1AddWilsonByAgent ==
    /\ pc = "rq1_ci_overall"
    /\ IF AddWilsonCiRaises(by_agent)
       THEN pc' = "raised" /\ error' = Some("ValueError: cannot convert float NaN to integer")
                           /\ by_agent' = by_agent
       ELSE pc' = "rq1_ci" /\ error' = error /\ by_agent' = AddWilsonCi(by_agent)
    /\ UNCHANGED <<pull_request, views, env, out_dir, buildVars, overall, rq1_out, rq2Vars>>

\* overall.to_csv, by_agent.to_csv
Rq1Write ==
    /\ pc = "rq1_ci"
    /\ rq1_out' = Some([overall |-> overall, by_agent |-> by_agent])
    /\ pc' = "rq1_done"
    /\ UNCHANGED <<pull_request, views, env, out_dir, error, buildVars, overall, by_agent, rq2Vars>>

NextRq1 ==
    \/ Rq1LoadConfig \/ Rq1Mkdir \/ Rq1CreateViews \/ Rq1Queries
    \/ Rq1AddWilsonOverall \/ Rq1AddWilsonByAgent \/ Rq1Write

MaxPrs == 2

Rq1Rows ==
    {[id |-> i, agent |-> a, repo_id |-> 100 + i, user_id |-> 200 + i,
      created_at |-> Ts(5), closed_at |-> d, merged_at |-> m]
     : i \in PrIds, a \in {Some("A"), Some("B")}, d \in {Null, Ts(7)}, m \in {Null, Ts(7), BadTs}}

Rq1Envs ==
    {ValidEnv, [ValidEnv EXCEPT !.config_file = FALSE],
     [ValidEnv EXCEPT !.files = @ \ {"pull_request"}]}

\* a run of run_rq1.py on a pull_request relation of at most MaxPrs rows
InitRq1 ==
    /\ pc = "rq1_start"
    /\ \E n \in 0..MaxPrs : pull_request \in BagsOfSize(Rq1Rows, n)
    /\ env \in Rq1Envs
    /\ pr_task_type = EmptyBag /\ pr_commits = EmptyBag /\ pr_commit_details = EmptyBag
    /\ pr_reviews = EmptyBag /\ pr_timeline = EmptyBag
    /\ views = {} /\ rq2_features = EmptyBag /\ df = EmptyBag /\ out_csv = Null
    /\ out_dir = FALSE /\ error = Null /\ w_args = Null /\ w_ret = Null
    /\ overall = EmptyBag /\ by_agent = EmptyBag /\ rq1_out = Null
    /\ feat_csv = EmptyBag /\ mdf = EmptyBag /\ resA = Null /\ resB = Null /\ rq2_out = {}

SpecRq1 == InitRq1 /\ [][NextRq1]_vars

-----------------------------------------------------------------------------
(* Claims about the feature build *)

ViewsCreated == pc \in {"views", "assembled", "transformed", "done"}
Assembled == pc \in {"assembled", "transformed", "done"}
Transformed == pc \in {"transformed", "done"}

\* the outcome the precedence rule gives to a pair of cast timestamps
ExpectedOutcome(merged_ts, closed_ts) ==
    CASE ~IsNull(merged_ts) -> "merged"
      [] IsNull(merged_ts) /\ ~IsNull(closed_ts) -> "closed_unmerged"
      [] OTHER -> "open"

\* C1: every pull request the Labeler joins (an agent attribution and a pull_request
\* row with the same id) has a labeled row whose outcome follows the precedence
\* merged > closed_unmerged > open on the cast timestamps, every labeled row has
\* one of the three labels, and y_merged is 1 exactly when the outcome is merged.
C1_OutcomePrecedence ==
    ViewsCreated =>
      /\ \A t \in DOMAIN pr_task_type : \A p \in DOMAIN pull_request :
            (~IsNull(t.agent) /\ t.id = p.id) =>
               \E l \in DOMAIN labeled :
                  /\ l.pr_id = p.id /\ l.agent = t.agent
                  /\ l.merged_ts = TryCastTs(p.merged_at)
                  /\ l.closed_ts = TryCastTs(p.closed_at)
                  /\ l.outcome = ExpectedOutcome(TryCastTs(p.merged_at), TryCastTs(p.closed_at))
      /\ \A l \in DOMAIN labeled :
            /\ l.outcome \in {"merged", "closed_unmerged", "open"}
            /\ l.outcome = ExpectedOutcome(l.merged_ts, l.closed_ts)
            /\ l.y_merged \in {0, 1}
            /\ (l.y_merged = 1) <=> (l.outcome = "merged")

\* a pull request with both timestamps set is labeled merged, and one is labeled closed_unmerged
C1_Witness ==
    /\ ViewsCreated
    /\ \E l \in DOMAIN labeled :
          ~IsNull(l.merged_ts) /\ ~IsNull(l.closed_ts) /\ l.outcome = "merged" /\ l.y_merged = 1
    /\ \E l \in DOMAIN labeled : l.outcome = "closed_unmerged" /\ l.y_merged = 0

Eligible(i) ==
    /\ \E t \in DOMAIN pr_task_type : t.id = i /\ ~IsNull(t.agent)
    /\ \E p \in DOMAIN pull_request :
          p.id = i /\ (~IsNull(TryCastTs(p.closed_at)) \/ ~IsNull(TryCastTs(p.merged_at)))

AllIds == {p.id : p \in DOMAIN pull_request} \cup {t.id : t \in DOMAIN pr_task_type}

\* the rows of rq2_base a feature row is built from
SourceRows(f) ==
    {b \in DOMAIN rq2_base :
        b.pr_id = f.pr_id /\ b.agent = f.agent /\ b.repo_id = f.repo_id /\ b.y_merged = f.y_merged}

\* C2: an identifier is in the feature table iff it has a non-null agent in
\* pr_task_type and a pull_request row whose (cast) closed or merged timestamp is
\* non-null; no feature row comes from an open pull request or has a null agent.
C2_EligibleIff ==
    Assembled =>
      /\ \A i \in AllIds : (\E f \in DOMAIN rq2_features : f.pr_id = i) <=> Eligible(i)
      /\ \A f \in DOMAIN rq2_features :
            /\ f.pr_id \in AllIds
            /\ ~IsNull(f.agent)
            /\ SourceRows(f) # {}
            /\ \A b \in SourceRows(f) : b.outcome # "open"

\* one identifier is in the table and another, attributed to no agent, is kept out of it
C2_Witness ==
    /\ Assembled
    /\ \E f \in DOMAIN rq2_features : Eligible(f.pr_id)
    /\ \E t \in DOMAIN pr_task_type :
          IsNull(t.agent) /\ ~Eligible(t.id) /\ \A f \in DOMAIN rq2_features : f.pr_id # t.id

\* C3 (as claimed): rq2_features has as many rows as rq2_base, whatever the raw relations hold.
C3_RowCountPreserved == Assembled => NRows(rq2_features) = NRows(rq2_base)

\* C4 (as claimed): no identifier is in more than one row of rq2_base or of rq2_features.
C4_OneRowPerPullRequest ==
    /\ ViewsCreated =>
          \A b \in DOMAIN rq2_base :
             rq2_base[b] = 1 /\ \A c \in DOMAIN rq2_base : c.pr_id = b.pr_id => c = b
    /\ Assembled =>
          \A f \in DOMAIN rq2_features :
             rq2_features[f] = 1 /\ \A g \in DOMAIN rq2_features : g.pr_id = f.pr_id => g = f

\* C5: in the transformed table (and in the file written from it) every row with
\* has_review = 0 has log1p_hours_to_first_review exactly 0.0.
C5_NoReviewSentinel ==
    /\ Transformed =>
          \A r \in DOMAIN df : r.has_review = 0 => r.log1p_hours_to_first_review = 0
    /\ pc = "done" =>
          \A r \in DOMAIN Val(out_csv) : r.has_review = 0 => r.log1p_hours_to_first_review = 0

\* a written table with an unreviewed row; the pull request has a review row without a timestamp
C5_Witness ==
    /\ pc = "done"
    /\ \E r \in DOMAIN Val(out_csv) :
          /\ r.has_review = 0 /\ r.log1p_hours_to_first_review = 0
          /\ \E v \in DOMAIN pr_reviews : v.pr_id = r.pr_id

\* the distinct non-null shas pr_commits holds for a pull request
ShasOf(i) == {Val(c.sha) : c \in {d \in DOMAIN pr_commits : d.pr_id = i /\ ~IsNull(d.sha)}}

\* the bucket the binning rule gives to a commit count
ExpectedBucket(n) == IF n <= 1 THEN 1 ELSE IF n >= 5 THEN 5 ELSE n

\* C6: in every feature row n_commits is the number of distinct commits of the pull
\* request (0 when it has none), commit_bucket is in 1..5, is 1 for a count <= 1, the
\* count itself for 2..4 and 5 from 5 on, and is non-decreasing in the count, over the
\* rows and over all counts (0 gives 1, 2 gives 2, 7 gives 5).
C6_CommitBucket ==
    /\ Assembled =>
          \A f \in DOMAIN rq2_features :
             /\ f.n_commits = Cardinality(ShasOf(f.pr_id))
             /\ f.commit_bucket \in 1..5
             /\ f.commit_bucket = ExpectedBucket(f.n_commits)
             /\ \A g \in DOMAIN rq2_features :
                   f.n_commits <= g.n_commits => f.commit_bucket <= g.commit_bucket
    /\ CommitBucket(Null) = 1
    /\ CommitBucket(Some(0)) = 1 /\ CommitBucket(Some(2)) = 2 /\ CommitBucket(Some(7)) = 5
    /\ \A n \in 0..(MaxShas + 1) : \A m \in n..(MaxShas + 1) :
          CommitBucket(Some(n)) <= CommitBucket(Some(m))

\* one pull request with 7 distinct commits in bucket 5 beside one with no commit row in bucket 1
C6_Witness ==
    /\ Assembled
    /\ \E f \in DOMAIN rq2_features : f.n_commits = 7 /\ f.commit_bucket = 5
    /\ \E g \in DOMAIN rq2_features :
          g.n_commits = 0 /\ g.commit_bucket = 1 /\ \A c \in DOMAIN pr_commits : c.pr_id # g.pr_id

ScenarioRow1(r) ==
    /\ r.pr_id = 1 /\ r.agent = Some("A") /\ r.y_merged = 1 /\ r.commit_bucket = 2
    /\ r.has_review = 0 /\ r.log1p_hours_to_first_review = 0

ScenarioRow2(r) ==
    /\ r.pr_id = 2 /\ r.agent = Some("B") /\ r.y_merged = 0 /\ r.commit_bucket = 5
    /\ r.has_review = 1 /\ r.force_push = 1

\* C9: for the three pull requests of the scenario the written feature table has
\* exactly two rows: PR1 with y_merged 1, bucket 2, has_review 0 and a transformed
\* latency of 0.0, and PR2 with y_merged 0, bucket 5, has_review 1 and force_push 1;
\* PR3 has no row.
C9_EndToEnd ==
    /\ pc # "raised"
    /\ pc = "done" =>
          /\ NRows(Val(out_csv)) = 2
          /\ \E r \in DOMAIN Val(out_csv) : ScenarioRow1(r)
          /\ \E r \in DOMAIN Val(out_csv) : ScenarioRow2(r)
          /\ \A r \in DOMAIN Val(out_csv) : r.pr_id \in {1, 2}

\* the run has written the table, PR3 carrying a NULL attribution and a merged timestamp
C9_Witness ==
    /\ pc = "done"
    /\ NRows(Val(out_csv)) = 2
    /\ \E t \in DOMAIN pr_task_type : t.id = 3 /\ IsNull(t.agent)
    /\ \E p \in DOMAIN pull_request : p.id = 3 /\ ~IsNull(p.merged_at)
    /\ \E r \in DOMAIN Val(out_csv) : ScenarioRow2(r) /\ ~IsNull(r.hours_to_first_review)

-----------------------------------------------------------------------------
(* Claims about the Interval Estimator and run_rq1 *)

WilsonReturned == w_args # Null /\ w_ret # Null

\* C7: a call wilson_ci(k, n, z) with n = 0 returns (NaN, NaN, NaN) for any k and z,
\* evaluates no division by n and raises no error.
C7_ZeroTrialsNaN ==
    (WilsonReturned /\ Val(w_args).n = 0) =>
        /\ Val(w_ret).exc = Null
        /\ ~Val(w_ret).divided
        /\ Val(w_ret).p.nan /\ Val(w_ret).low.nan /\ Val(w_ret).high.nan

C7_Witness ==
    /\ WilsonReturned
    /\ Val(w_args).n = 0 /\ Val(w_args).k = 3 /\ Val(w_args).z = Z2576
    /\ Val(w_ret).low.nan

FOne == FInt(1)
FHalf == FDiv(FInt(1), FInt(2))

\* C8: for n > 0 and 0 <= k <= n with the default z, a call returns p = k/n and an
\* interval with 0 <= low <= high <= 1; for k = 5, n = 10 the interval lies around 0.5
\* (low < 0.5 < high) and is narrower than 1.
C8_WilsonWithinUnitInterval ==
    (WilsonReturned /\ Val(w_args).n > 0 /\ Val(w_args).z = Z196) =>
        /\ Val(w_ret).exc = Null
        /\ Val(w_ret).p = FDiv(FInt(Val(w_args).k), FInt(Val(w_args).n))
        /\ FLe(FZero, Val(w_ret).low)
        /\ FLe(Val(w_ret).low, Val(w_ret).high)
        /\ FLe(Val(w_ret).high, FOne)
        /\ (Val(w_args).k = 5 /\ Val(w_args).n = 10) =>
              /\ FLt(Val(w_ret).low, FHalf) /\ FLt(FHalf, Val(w_ret).high)
              /\ FLt(FSub(Val(w_ret).high, Val(w_ret).low), FOne)

\* C10: with an empty pull_request relation and a valid environment neither program
\* raises: run_rq1 ends the interval stage with one overall row with n_total = 0 and NaN
\* in merged_ci_low and merged_ci_high and with an empty per-agent table, and the feature
\* build writes an empty feature table.
C10_EmptyNeverRaises ==
    (pull_request = EmptyBag /\ env = ValidEnv) =>
        /\ pc # "raised"
        /\ pc \in {"rq1_ci_overall", "rq1_ci", "rq1_done"} =>
              /\ \A r \in DOMAIN overall :
                    r.n_total = 0 /\ r.merged_ci_low.nan /\ r.merged_ci_high.nan
              /\ NRows(overall) = 1
              /\ by_agent = EmptyBag
        /\ pc = "done" => out_csv = Some(EmptyBag)

-----------------------------------------------------------------------------
(* Claims about errors, defaults and the extractors *)

Rq1Queried == pc \in {"rq1_queried", "rq1_ci_overall", "rq1_ci", "rq1_done"}

\* C11: a timestamp text that cannot be parsed never aborts a run and counts as absent
\* for its row: no labeling stage raises a conversion error; the feature build's
\* Labeler labels each joined row by the timestamps that parse; and the aggregate
\* labeling of run_rq1 counts every row, as merged exactly when merged_at parses.
C11_UnparsableDegradesToNull ==
    /\ error # Some("ConversionException")
    /\ ViewsCreated =>
          \A l \in DOMAIN labeled : \E p \in DOMAIN pull_request :
              /\ p.id = l.pr_id
              /\ l.outcome = ExpectedOutcome(TryCastTs(p.merged_at), TryCastTs(p.closed_at))
    /\ Rq1Queried =>
          \A r \in DOMAIN overall :
              /\ r.n_total = NRows(pull_request)
              /\ NRows(pull_request) > 0 =>
                    r.n_merged =
                       Some(CountWhere(LAMBDA p : ~IsNull(TryCastTs(p.merged_at)), pull_request))

-----------------------------------------------------------------------------
(* Inputs for configuration errors: every environment, the raw relations fixed *)

Envs ==
    [config_file : BOOLEAN, has_data_dir_key : BOOLEAN, data_dir_exists : BOOLEAN,
     files : SUBSET {RequiredTables[i] : i \in 1..Len(RequiredTables)}]

InitConfig ==
    /\ Started
    /\ env \in Envs
    /\ pull_request = SetToBag({PrRowOf(1, Ts(5), Null, Ts(7)), PrRowOf(2, Ts(5), Ts(7), Null)})
    /\ pr_task_type = SetToBag({[id |-> 1, agent |-> Some("A")], [id |-> 2, agent |-> Some("B")]})
    /\ pr_commits = CommitRows(1, 2, 0, 0)
    /\ pr_commit_details = EmptyBag
    /\ pr_reviews = EmptyBag
    /\ pr_timeline = EmptyBag

SpecConfig == InitConfig /\ [][Next]_vars

\* the configuration errors of the feature build: no data_dir key, no data directory,
\* or a required input file missing (the config file itself can be read)
ConfigError ==
    /\ env.config_file
    /\ \/ ~env.has_data_dir_key
       \/ ~env.data_dir_exists
       \/ \E i \in 1..Len(RequiredTables) : RequiredTables[i] \notin env.files

\* C12: under a configuration error the feature build raises before any computation or
\* side effect: at no point of the run is a view bound, a feature block computed, the
\* output directory or the feature table created, and the run ends with an error.
C12_ConfigErrorBeforeSideEffects ==
    ConfigError =>
        /\ views = {}
        /\ out_dir = FALSE
        /\ rq2_features = EmptyBag /\ df = EmptyBag /\ out_csv = Null
        /\ pc \in {"start", "mkdir", "config", "raised"}
        /\ pc = "raised" => error # Null

SevenInputs ==
    {"pull_request", "pr_task_type", "pr_commits", "pr_commit_details", "pr_reviews",
     "pr_timeline", "repository"}

\* C15: with a readable configuration, an existing data directory and the seven listed
\* input relations present, the feature build never ends with an error, and once it is
\* done the feature table is written.
C15_SevenInputsSuffice ==
    (/\ env.config_file /\ env.has_data_dir_key /\ env.data_dir_exists
     /\ SevenInputs \subseteq env.files) =>
        /\ pc # "raised"
        /\ pc = "done" => out_csv # Null

-----------------------------------------------------------------------------
(* run_rq2.py: the Inference Engine *)

\* a term of a formula: a column taken as a number, or as a category with C(...)
Num(v) == [var |-> v, categorical |-> FALSE]
Cat(v) == [var |-> v, categorical |-> TRUE]

\* Model A: commit buckets
fA ==
    [response |-> "y_merged",
     terms |-> <<Cat("commit_bucket"), Num("log1p_delta_loc"), Num("log1p_files"),
                 Num("tests_added"), Num("force_push"), Num("has_review"),
                 Num("log1p_hours_to_first_review"), Cat("agent")>>]

\* mutant: Model B without the has_review indicator
fBNoHasReview ==
    [response |-> "y_merged",
     terms |-> <<Num("log1p_commits"), Num("log1p_delta_loc"), Num("log1p_files"),
                 Num("tests_added"), Num("force_push"),
                 Num("log1p_hours_to_first_review"), Cat("agent")>>]

\* Model B: raw commits log1p
fB ==
    [response |-> "y_merged",
     terms |-> <<Num("log1p_commits"), Num("log1p_delta_loc"), Num("log1p_files"),
                 Num("tests_added"), Num("force_push"), Num("has_review"),
                 Num("log1p_hours_to_first_review"), Cat("agent")>>]

TermSet(f) == {f.terms[i] : i \in 1..Len(f.terms)}

\* the decimal text of a natural number: astype(str) on an integer column
RECURSIVE Digits(_)
Digits(n) ==
    LET d == <<"0", "1", "2", "3", "4", "5", "6", "7", "8", "9">>[(n % 10) + 1]
    IN  IF n < 10 THEN <<d>> ELSE Digits(n \div 10) \o <<d>>

\* dropna(subset=["y_merged", "repo_id", "agent"])
NotNa(r) == ~IsNull(r.y_merged) /\ ~IsNull(r.repo_id) /\ ~IsNull(r.agent)

\* the kept row, repo_id and agent as text
AsTyped(r) ==
    [c \in DOMAIN r |->
        IF c = "y_merged" THEN Val(r.y_merged)
        ELSE IF c = "repo_id" THEN Digits(Val(r.repo_id))
        ELSE IF c = "agent" THEN Val(r.agent)
        ELSE r[c]]

\* the design matrix the formula interface builds: an intercept, one column per
\* numeric term, and for a C(...) term one indicator column per level but one
\* (the reference level; a term with a single level gives no column)
Levels(d, v) == {r[v] : r \in DOMAIN d}
Reference(d, v) == CHOOSE l \in Levels(d, v) : TRUE
TermColumns(d, t) ==
    IF ~t.categorical THEN {<<t.var>>}
    ELSE IF Levels(d, t.var) = {} THEN {}
    ELSE {<<t.var, l>> : l \in Levels(d, t.var) \ {Reference(d, t.var)}}
DesignColumns(d, f) ==
    {<<"Intercept">>} \cup UNION {TermColumns(d, t) : t \in TermSet(f)}
Entry(r, c) ==
    IF c = <<"Intercept">> THEN 1
    ELSE IF Len(c) = 2 THEN Ind(r[c[1]] = c[2])
    ELSE r[c[1]]
DesignRows(d, f) == {[c \in DesignColumns(d, f) |-> Entry(r, c)] : r \in DOMAIN d}

Abs(x) == IF x < 0 THEN -x ELSE x

RECURSIVE Gcd(_, _)
Gcd(a, b) == IF b = 0 THEN a ELSE Gcd(b, a % b)

RECURSIVE GcdOf(_, _)
GcdOf(v, cs) ==
    IF cs = {} THEN 0
    ELSE LET c == CHOOSE x \in cs : TRUE IN Gcd(Abs(v[c]), GcdOf(v, cs \ {c}))

\* the same direction with coprime entries
Primitive(v) ==
    LET g == GcdOf(v, DOMAIN v) IN IF g = 0 THEN v ELSE [c \in DOMAIN v |-> v[c] \div g]

\* the rank of the vectors S over the columns cs, by elimination column after column
RECURSIVE Rank(_, _)
Rank(S, cs) ==
    IF cs = {} \/ S = {} THEN 0
    ELSE LET c == CHOOSE x \in cs : TRUE
             nz == {v \in S : v[c] # 0}
         IN  IF nz = {} THEN Rank(S, cs \ {c})
             ELSE LET p == CHOOSE v \in nz : TRUE
                  IN  1 + Rank({Primitive([j \in DOMAIN v |-> v[j] * p[c] - p[j] * v[c]])
                                : v \in S \ {p}}, cs \ {c})

RankDeficient(d, f) ==
    Rank(DesignRows(d, f), DesignColumns(d, f)) < Cardinality(DesignColumns(d, f))

\* fit_logit_cluster(df, formula, cluster_col): what the fit was made of.  The function
\* tests nothing about the design matrix; on a rank-deficient one the library either
\* raises (the singular matrix is detected) or returns a fit.
FitResult(d, formula, cluster_col) ==
    [formula |-> formula, cov_type |-> "cluster", groups |-> cluster_col,
     params |-> DesignColumns(d, formula), degenerate |-> RankDeficient(d, formula)]

\* tidy_or_table(res): one row per term
TidyOrTable(res) == [terms |-> res.params, degenerate |-> res.degenerate]

inputVars == <<pull_request, pr_task_type, pr_commits, pr_commit_details, pr_reviews,
               pr_timeline, views, rq2_features, df, out_csv, env, w_args, w_ret>>

\* out_dir.mkdir(parents=True, exist_ok=True)
Rq2Mkdir ==
    /\ pc = "rq2_start"
    /\ out_dir' = TRUE
    /\ pc' = "rq2_mkdir"
    /\ UNCHANGED <<inputVars, rq1Vars, error, rq2Vars>>

\* df = pd.read_csv(features); dropna; astype(str)
Rq2ReadCsv ==
    /\ pc = "rq2_mkdir"
    /\ mdf' = MapBag(AsTyped, FilterBag(NotNa, feat_csv))
    /\ pc' = "rq2_read"
    /\ UNCHANGED <<inputVars, rq1Vars, error, out_dir, feat_csv, resA, resB, rq2_out>>

\* resA = fit_logit_cluster(df, fA, "repo_id")
Rq2FitA ==
    /\ pc = "rq2_read"
    /\ \/ /\ RankDeficient(mdf, fA)
          /\ pc' = "raised" /\ error' = Some("LinAlgError: Singular matrix") /\ resA' = resA
       \/ /\ pc' = "rq2_fitA" /\ error' = error
          /\ resA' = Some(FitResult(mdf, fA, "repo_id"))
    /\ UNCHANGED <<inputVars, rq1Vars, out_dir, feat_csv, mdf, resB, rq2_out>>

\* resB = fit_logit_cluster(df, fB, "repo_id")
Rq2FitB ==
    /\ pc = "rq2_fitA"
    /\ \/ /\ RankDeficient(mdf, fB)
          /\ pc' = "raised" /\ error' = Some("LinAlgError: Singular matrix") /\ resB' = resB
       \/ /\ pc' = "rq2_fitB" /\ error' = error
          /\ resB' = Some(FitResult(mdf, fB, "repo_id"))
    /\ UNCHANGED <<inputVars, rq1Vars, out_dir, feat_csv, mdf, resA, rq2_out>>

\* the two coefficient tables and the two text summaries
Rq2Write ==
    /\ pc = "rq2_fitB"
    /\ rq2_out' = {<<"rq2_logit_bucket_cluster.csv", TidyOrTable(Val(resA))>>,
                   <<"rq2_logit_logcommits_cluster.csv", TidyOrTable(Val(resB))>>,
                   <<"rq2_modelA_summary.txt", TidyOrTable(Val(resA))>>,
                   <<"rq2_modelB_summary.txt", TidyOrTable(Val(resB))>>}
    /\ pc' = "rq2_done"
    /\ UNCHANGED <<inputVars, rq1Vars, error, out_dir, feat_csv, mdf, resA, resB>>

NextRq2 == Rq2Mkdir \/ Rq2ReadCsv \/ Rq2FitA \/ Rq2FitB \/ Rq2Write

-----------------------------------------------------------------------------
(* Inputs for the Inference Engine: a features file of nine pull requests in which *)
(* each covariate varies in one row, less the variation the choices below take out *)

NumericCovariates ==
    {"log1p_delta_loc", "log1p_files", "tests_added", "force_push", "has_review",
     "log1p_hours_to_first_review"}

\* row i of the file; the covariates in flat are constant, as are the agent with
\* oneAgent, commit_bucket with flatBucket, and both commit columns with flatCommits
FeatureFileRow(i, flat, oneAgent, flatBucket, flatCommits) ==
    LET On(k, v) == IF i = k /\ v \notin flat THEN 1 ELSE 0
    IN  [pr_id |-> i,
         y_merged |-> Some(i % 2),
         repo_id |-> Some(100 + (i % 3)),
         agent |-> Some(IF i = 8 /\ ~oneAgent THEN "B" ELSE "A"),
         commit_bucket |-> IF i = 1 /\ ~flatBucket /\ ~flatCommits THEN 2 ELSE 1,
         log1p_commits |-> IF i = 1 /\ ~flatCommits THEN 1 ELSE 0,
         log1p_delta_loc |-> On(2, "log1p_delta_loc"),
         log1p_files |-> On(3, "log1p_files"),
         tests_added |-> On(4, "tests_added"),
         force_push |-> On(5, "force_push"),
         has_review |-> IF "has_review" \in flat THEN 0
                        ELSE IF i = 6 \/ On(7, "log1p_hours_to_first_review") = 1 THEN 1 ELSE 0,
         log1p_hours_to_first_review |-> On(7, "log1p_hours_to_first_review")]

\* a row without agent, which dropna removes
NoAgentRow == [FeatureFileRow(9, {}, TRUE, TRUE, TRUE) EXCEPT !.agent = Null]

InitInference ==
    /\ pc = "rq2_start"
    /\ \E flat \in SUBSET NumericCovariates, oneAgent \in BOOLEAN, flatBucket \in BOOLEAN,
          flatCommits \in BOOLEAN, extra \in {EmptyBag, SetToBag({NoAgentRow})} :
          feat_csv =
             SetToBag({FeatureFileRow(i, flat, oneAgent, flatBucket, flatCommits) : i \in 0..8})
             (+) extra
    /\ mdf = EmptyBag /\ resA = Null /\ resB = Null /\ rq2_out = {}
    /\ pull_request = EmptyBag /\ pr_task_type = EmptyBag /\ pr_commits = EmptyBag
    /\ pr_commit_details = EmptyBag /\ pr_reviews = EmptyBag /\ pr_timeline = EmptyBag
    /\ views = {} /\ rq2_features = EmptyBag /\ df = EmptyBag /\ out_csv = Null
    /\ env = ValidEnv /\ out_dir = FALSE /\ error = Null /\ w_args = Null /\ w_ret = Null
    /\ overall = EmptyBag /\ by_agent = EmptyBag /\ rq1_out = Null

SpecInference == InitInference /\ [][NextRq2]_vars

-----------------------------------------------------------------------------
(* Claims about the Inference Engine *)

FitDone(res) == res # Null

\* the covariates of a formula other than the commit term
OtherTerms(f) == TermSet(f) \ {Cat("commit_bucket"), Num("log1p_commits")}

\* C14: every model fitted with log1p_hours_to_first_review also has has_review; Model A
\* and Model B have the same covariates (churn, files, tests, force push, has_review,
\* review latency, the agent as category) except for commit_bucket as category in A and
\* log1p_commits as number in B; both are fitted with errors clustered by repo_id.
C14_ModelFormulas ==
    /\ \A res \in {resA, resB} :
          FitDone(res) =>
             /\ (Num("log1p_hours_to_first_review") \in TermSet(Val(res).formula)
                    => Num("has_review") \in TermSet(Val(res).formula))
             /\ Val(res).cov_type = "cluster" /\ Val(res).groups = "repo_id"
             /\ Val(res).formula.response = "y_merged"
             /\ OtherTerms(Val(res).formula) =
                   {Num("log1p_delta_loc"), Num("log1p_files"), Num("tests_added"),
                    Num("force_push"), Num("has_review"),
                    Num("log1p_hours_to_first_review"), Cat("agent")}
    /\ FitDone(resA) =>
          TermSet(Val(resA).formula) = OtherTerms(Val(resA).formula) \cup {Cat("commit_bucket")}
    /\ FitDone(resB) =>
          TermSet(Val(resB).formula) = OtherTerms(Val(resB).formula) \cup {Num("log1p_commits")}

C14_Witness ==
    /\ pc = "rq2_done" /\ FitDone(resA) /\ FitDone(resB)
    /\ \E o \in rq2_out : o[1] = "rq2_logit_logcommits_cluster.csv"

\* a single agent level and a single commit_bucket level
SingleLevels(d) ==
    Cardinality(Levels(d, "agent")) = 1 /\ Cardinality(Levels(d, "commit_bucket")) = 1

Rq2Read == pc \in {"rq2_read", "rq2_fitA", "rq2_fitB", "rq2_done", "raised"}

\* C13: when the design matrix of a model is rank-deficient, and in particular when the
\* feature table has a single agent level and no variance in commit_bucket (Model A),
\* the run ends with a failure: no fit of that model is kept and no file is written.
C13_RankDeficiencyIsFatal ==
    Rq2Read =>
        /\ (RankDeficient(mdf, fA) \/ SingleLevels(mdf)) => (resA = Null /\ rq2_out = {})
        /\ RankDeficient(mdf, fB) => (resB = Null /\ rq2_out = {})

-----------------------------------------------------------------------------
(* Inputs for the defaults: two resolved agentic pull requests, each extractor block *)
(* of each present or absent                                                         *)

BlockRows(present, rows) == IF present THEN rows ELSE EmptyBag

InitBlocks ==
    /\ Started
    /\ env = ValidEnv
    /\ pull_request = SetToBag({PrRowOf(1, Ts(5), Null, Ts(7)), PrRowOf(2, Ts(5), Ts(7), Null)})
    /\ pr_task_type = SetToBag({[id |-> 1, agent |-> Some("A")], [id |-> 2, agent |-> Some("B")]})
    /\ \E has \in [PrIds -> [{"commits", "details", "timeline", "reviews"} -> BOOLEAN]] :
          /\ pr_commits =
                BlockRows(has[1].commits, CommitRows(1, 2, 0, 0))
                (+) BlockRows(has[2].commits, CommitRows(2, 3, 0, 0))
          /\ pr_commit_details =
                BlockRows(has[1].details,
                          SetToBag({[pr_id |-> 1, filename |-> Some(Str_Test_py),
                                     additions |-> Some(3), deletions |-> Some(1)]}))
                (+) BlockRows(has[2].details,
                              SetToBag({[pr_id |-> 2, filename |-> Some(Str_a_py),
                                         additions |-> Some(2), deletions |-> Null]}))
          /\ pr_timeline =
                BlockRows(has[1].timeline,
                          SetToBag({[pr_id |-> 1, event |-> Some(Str_head_ref_force_pushed),
                                     message |-> Null]}))
                (+) BlockRows(has[2].timeline,
                              SetToBag({[pr_id |-> 2, event |-> Null,
                                         message |-> Some(Str_Force)]}))
          /\ pr_reviews =
                BlockRows(has[1].reviews, SetToBag({[pr_id |-> 1, submitted_at |-> Ts(9)]}))
                (+) BlockRows(has[2].reviews, SetToBag({[pr_id |-> 2, submitted_at |-> Ts(6)]}))

SpecBlocks == InitBlocks /\ [][Next]_vars

NoRows(T, id) == \A r \in DOMAIN T : r.pr_id # id

\* C16: the feature build never fails on a missing block, every resolved agentic pull
\* request has its feature row, and in every feature row each block without raw rows
\* gives its defaults whatever the other blocks hold: commit_count 0 and commit_bucket 1;
\* delta_loc, file_count and tests_touched 0; force_push_signal 0; has_review 0 with a
\* null hours_to_first_review.
C16_MissingBlockDefaults ==
    /\ pc # "raised"
    /\ Assembled =>
          /\ \A b \in DOMAIN rq2_base : \E f \in DOMAIN rq2_features : f.pr_id = b.pr_id
          /\ \A f \in DOMAIN rq2_features :
                /\ NoRows(pr_commits, f.pr_id) => (f.n_commits = 0 /\ f.commit_bucket = 1)
                /\ NoRows(pr_commit_details, f.pr_id) =>
                      (f.delta_loc = 0 /\ f.n_files = 0 /\ f.tests_added = 0)
                /\ NoRows(pr_timeline, f.pr_id) => f.force_push = 0
                /\ NoRows(pr_reviews, f.pr_id) =>
                      (f.has_review = 0 /\ IsNull(f.hours_to_first_review))

C16_Witness ==
    /\ pc = "done"
    /\ \E f \in DOMAIN rq2_features :
          /\ NoRows(pr_commits, f.pr_id) /\ NoRows(pr_commit_details, f.pr_id)
          /\ NoRows(pr_timeline, f.pr_id) /\ NoRows(pr_reviews, f.pr_id)
          /\ f.commit_bucket = 1 /\ IsNull(f.hours_to_first_review)
    /\ \E g \in DOMAIN rq2_features :
          /\ NoRows(pr_timeline, g.pr_id) /\ ~NoRows(pr_commits, g.pr_id)
          /\ g.force_push = 0 /\ g.n_commits > 0

-----------------------------------------------------------------------------
(* Inputs for duplicated raw rows: one resolved agentic pull request, pr_commits and *)
(* pr_commit_details with repeated and NULL keys                                     *)

MaxDetails == 3
MaxCopies == 2

DetailRows ==
    {[pr_id |-> 1, filename |-> f, additions |-> a, deletions |-> Null]
     : f \in {Null, Some(Str_a_py), Some(Str_Test_py)}, a \in {Some(1), Some(2)}}

InitDuplicates ==
    /\ Started
    /\ env = ValidEnv
    /\ pull_request = SetToBag({PrRowOf(1, Ts(5), Null, Ts(7))})
    /\ pr_task_type = SetToBag({[id |-> 1, agent |-> Some("A")]})
    /\ \E n \in 0..2, d \in 0..MaxCopies, z \in 0..MaxCopies : pr_commits = CommitRows(1, n, d, z)
    /\ \E k \in 0..MaxDetails : pr_commit_details \in BagsOfSize(DetailRows, k)
    /\ pr_reviews = EmptyBag
    /\ pr_timeline = EmptyBag

SpecDuplicates == InitDuplicates /\ [][Next]_vars

\* the extractor counts of pull request id over given raw relations
CommitCountOver(T, id) == CountDistinctSha(Group(T, id))
FileCountOver(T, id) == CountDistinctFilename(Group(T, id))

OneMore(T, r) == T (+) SetToBag({r})

\* C17: the commit_count of a feature row is the number of distinct non-null shas of its
\* pr_commits rows and its file_count the number of distinct non-null filenames of its
\* pr_commit_details rows, whatever the multiplicities; one more copy of an existing
\* pr_commits row, one more pr_commit_details row with an existing filename, and one
\* more row with a null sha or a null filename all leave the counts as they are.
C17_DuplicatesDoNotCount ==
    Assembled =>
        \A f \in DOMAIN rq2_features :
            /\ \A r \in Group(pr_commits, f.pr_id) :
                  CommitCountOver(OneMore(pr_commits, r), f.pr_id) = f.n_commits
            /\ CommitCountOver(OneMore(pr_commits, [pr_id |-> f.pr_id, sha |-> Null]), f.pr_id)
                  = f.n_commits
            /\ \A r \in Group(pr_commit_details, f.pr_id) : \A a \in {Null, Some(7)} :
                  FileCountOver(OneMore(pr_commit_details, [r EXCEPT !.additions = a]), f.pr_id)
                      = f.n_files
            /\ FileCountOver(OneMore(pr_commit_details,
                                     [pr_id |-> f.pr_id, filename |-> Null,
                                      additions |-> Some(7), deletions |-> Null]), f.pr_id)
                  = f.n_files
            /\ \A r \in Group(pr_commits, f.pr_id) :
                  (pr_commits[r] > 1 \/ IsNull(r.sha)) =>
                      f.n_commits = Cardinality({Val(q.sha) : q \in {x \in Group(pr_commits, f.pr_id)
                                                                     : ~IsNull(x.sha)}})
                                    /\ f.n_commits < SumOver(Group(pr_commits, f.pr_id),
                                                             [q \in Group(pr_commits, f.pr_id)
                                                              |-> pr_commits[q]])
            /\ f.n_files <= Cardinality({x \in Group(pr_commit_details, f.pr_id)
                                         : ~IsNull(x.filename)})

C17_Witness ==
    /\ pc = "done"
    /\ \E f \in DOMAIN rq2_features :
          /\ f.n_commits = 2 /\ f.n_files = 1
          /\ \E r \in Group(pr_commits, f.pr_id) : pr_commits[r] > 1
          /\ \E r \in Group(pr_commits, f.pr_id) : IsNull(r.sha)
          /\ \E r \in Group(pr_commit_details, f.pr_id) :
                ~IsNull(r.filename) /\ pr_commit_details[r] > 1
          /\ \E r \in Group(pr_commit_details, f.pr_id) : IsNull(r.filename)

-----------------------------------------------------------------------------
(* Inputs for the force-push block: two resolved agentic pull requests, pr_timeline varied *)

MaxEvents == 2

Str_FORCE == <<"F", "O", "R", "C", "E">>
Str_forc == <<"f", "o", "r", "c">>

TimelineRows ==
    {[pr_id |-> i, event |-> e, message |-> m]
     : i \in PrIds,
       e \in {Null, Some(Str_commented), Some(Str_head_ref_force_pushed), Some(Str_FORCE)},
       m \in {Null, Some(Str_empty), Some(Str_forc), Some(Str_Force)}}

InitTimeline ==
    /\ Started
    /\ env = ValidEnv
    /\ pull_request = SetToBag({PrRowOf(1, Ts(5), Null, Ts(7)), PrRowOf(2, Ts(5), Ts(7), Null)})
    /\ pr_task_type = SetToBag({[id |-> 1, agent |-> Some("A")], [id |-> 2, agent |-> Some("B")]})
    /\ \E k \in 0..MaxEvents : pr_timeline \in BagsOfSize(TimelineRows, k)
    /\ pr_commits = EmptyBag
    /\ pr_commit_details = EmptyBag
    /\ pr_reviews = EmptyBag

SpecTimeline == InitTimeline /\ [][Next]_vars

\* a present text that contains 'force' in any letter case
MentionsForce(x) == ~IsNull(x) /\ Contains(LowerStr(Val(x)), Str_force)

\* C18: the force_push_signal of a feature row is 1 exactly when some pr_timeline row of
\* its pull request has an event type or a message containing 'force' in any letter case,
\* and 0 otherwise; a null in one of the two fields neither sets the flag nor hides a
\* match in the other field.
C18_ForcePushSignal ==
    Assembled =>
        \A f \in DOMAIN rq2_features :
            /\ f.force_push \in {0, 1}
            /\ f.force_push = 1 <=>
                  \E r \in Group(pr_timeline, f.pr_id) :
                      MentionsForce(r.event) \/ MentionsForce(r.message)

C18_Witness ==
    /\ pc = "done"
    /\ \E f \in DOMAIN rq2_features :
          /\ f.force_push = 1
          /\ \A r \in Group(pr_timeline, f.pr_id) : IsNull(r.event) /\ MentionsForce(r.message)
    /\ \E g \in DOMAIN rq2_features :
          /\ g.force_push = 0
          /\ \E r \in Group(pr_timeline, g.pr_id) : IsNull(r.event) /\ IsNull(r.message)

-----------------------------------------------------------------------------
(* Claims about the transforms *)

\* C19: in every transformed row, a row with has_review = 1 has hours_to_first_review
\* defined and log1p_hours_to_first_review = log1p(max(hours_to_first_review, 0)), and a
\* row with has_review = 0 has the sentinel 0; the transformed value is never negative
\* or null.
C19_Log1pHoursRule ==
    Transformed =>
        \A d \in DOMAIN df :
            /\ d.log1p_hours_to_first_review >= 0
            /\ d.has_review = 1 =>
                  /\ ~IsNull(d.hours_to_first_review)
                  /\ d.log1p_hours_to_first_review =
                        MathLog1p(ClipLower0(Val(d.hours_to_first_review)))
            /\ d.has_review = 0 => d.log1p_hours_to_first_review = 0


-----------------------------------------------------------------------------
(* Inputs for the change block: one resolved agentic pull request, pr_commit_details *)
(* with additions and deletions of either sign                                       *)

SignedDetailRows ==
    {[pr_id |-> 1, filename |-> Some(Str_a_py), additions |-> a, deletions |-> d]
     : a \in {Null, Some(-2), Some(1)}, d \in {Null, Some(-1), Some(1)}}

InitChanges ==
    /\ Started
    /\ env = ValidEnv
    /\ pull_request = SetToBag({PrRowOf(1, Ts(5), Null, Ts(7))})
    /\ pr_task_type = SetToBag({[id |-> 1, agent |-> Some("A")]})
    /\ \E k \in 0..MaxDetails : pr_commit_details \in BagsOfSize(SignedDetailRows, k)
    /\ \E n \in 0..2 : pr_commits = CommitRows(1, n, 0, 0)
    /\ pr_reviews = EmptyBag
    /\ pr_timeline = EmptyBag

SpecChanges == InitChanges /\ [][Next]_vars

\* C20: whatever the raw relations hold, commit_count, delta_loc and file_count of every
\* feature row are non-negative integers, the log1p transforms never raise a domain
\* error, and the log1p of a zero count is 0.
C20_Log1pAlwaysDefined ==
    /\ pc # "raised"
    /\ Assembled =>
          \A f \in DOMAIN rq2_features :
              f.n_commits \in Nat /\ f.delta_loc \in Nat /\ f.n_files \in Nat
    /\ Transformed =>
          \A d \in DOMAIN df :
              /\ d.n_commits = 0 => d.log1p_commits = 0
              /\ d.delta_loc = 0 => d.log1p_delta_loc = 0
              /\ d.n_files = 0 => d.log1p_files = 0


-----------------------------------------------------------------------------
(* Claims about the aggregate outcome table *)

AggregateRows == DOMAIN overall \cup DOMAIN by_agent

\* C21: once the aggregate tables are computed, every labeled pull request has exactly
\* one of the indicators merged, closed_unmerged and open equal to 1, and in the overall
\* row and in every agent row the three counts are defined and add up to n_total, with
\* n_merged <= n_total, so that wilson_ci is given a k and an n with 0 <= k <= n.
C21_OutcomeCountsPartition ==
    Rq1Queried =>
        /\ \A l \in DOMAIN rq1_labeled : l.merged + l.closed_unmerged + l.open = 1
        /\ \A r \in AggregateRows :
              /\ ~IsNull(r.n_merged) /\ ~IsNull(r.n_closed_unmerged) /\ ~IsNull(r.n_open)
              /\ r.n_total = Val(r.n_merged) + Val(r.n_closed_unmerged) + Val(r.n_open)
              /\ 0 <= Val(r.n_merged) /\ Val(r.n_merged) <= r.n_total

====
